---- MODULE Spec2Model ----
(***************************************************************************)
(* Agent context synchronisation (scripts/python/update-agent-context.py   *)
(* and scripts/python/common.py).                                          *)
(*                                                                         *)
(* Text is modelled as a sequence of tokens: a Python str is a sequence of *)
(* characters, here a sequence of short strings, so that strip,            *)
(* startswith, ==, re.search(re.escape(p), s), re.sub and readlines /      *)
(* writelines are computed on sequences the way the code computes them on  *)
(* characters.  The empty str '' is the empty sequence << >>.              *)
(***************************************************************************)
EXTENDS Integers, Sequences, FiniteSets, TLC

VARIABLES
    \* one context file under repeated syncs
    file,       \* the content of the context file (target_file)
    prev,       \* its content before the latest sync
    hist,       \* the PlanFields and branch of the syncs so far, latest first
    file0,      \* its content before the first sync
    \* one run of main()
    pc,         \* where the run is
    env,        \* what the run finds: agent_type, branch, git, design.md, template, PlanFields
    fs,         \* the content of every agent target path, or Absent
    tmp,        \* the content of every target's temporary file, or Absent
    dirs,       \* the parent directories that exist
    fs0,        \* fs before the run
    agentArg,   \* update_specific_agent's agent_type
    idx,        \* update_all_existing_agents' position in AGENT_FILES
    call,       \* the agent and target of the update_agent_file call in progress
    ret,        \* who called it: "all" or "specific"
    pending,    \* the content computed, to be written
    found,      \* update_all_existing_agents' found
    success,    \* success (of main and of update_all_existing_agents)
    exitCode,   \* the process's exit code, -1 while it runs
    enumerated, \* the valid identifiers were printed as an error
    attempted,  \* the agents update_agent_file was called for
    synced,     \* the agents update_agent_file returned True for
    crashedAt,  \* the step that raised, "" if none
    \* one call of get_feature_paths() and the branch validation of main()
    fenv,       \* what the call finds: SPECIFY_FEATURE, git, the specs directory
    lpc,        \* where the call is
    paths,      \* REPO_ROOT, CURRENT_BRANCH, HAS_GIT, FEATURE_DIR as far as computed
    out,        \* the messages printed
    valid,      \* the result of check_feature_branch
    raisedIn,   \* the function an uncaught exception came from, "" if none
    \* one design.md and the fields taken from it
    doc,        \* the lines of the document
    plan,       \* NEW_LANG, NEW_FRAMEWORK, NEW_DB, NEW_PROJECT_TYPE once parsed
    fmt,        \* the arguments and result of a call of format_technology_stack
    \* one call of update_existing_agent_file, one line of the file per step
    scanIn,     \* the PlanFields and branch, new_tech_entries, new_change_entry
    scanLines,  \* lines, as f.readlines() returned them
    spos,       \* the index of the line the loop takes next, 0 before the call
    st          \* output, in_tech, in_changes, tech_added, change_added, existing_changes

mergeVars == << file, prev, hist, file0 >>

runVars == << pc, env, fs, tmp, dirs, fs0, agentArg, idx, call, ret, pending,
              found, success, exitCode, enumerated, attempted, synced, crashedAt >>

locVars == << fenv, lpc, paths, out, valid, raisedIn >>

planVars == << doc, plan, fmt >>

scanVars == << scanIn, scanLines, spos, st >>

vars == << mergeVars, runVars, locVars, planVars, scanVars >>

(***************************************************************************)
(* Tokens                                                                  *)
(***************************************************************************)
NL == "\n"
SP == " "
Whitespace == { SP, NL }

HASHES == "## "
DASH == "- "
LU_LABEL == "**Last updated**: "

ACTIVE_TECH_HEADER == << HASHES, "Active Technologies" >>
RECENT_CHANGES_HEADER == << HASHES, "Recent Changes" >>

NEEDS_CLARIFICATION == << "NEEDS CLARIFICATION" >>
NOT_APPLICABLE == << "N/A" >>

OldDate == "2024-01-01"
Today == "2025-06-01"
Dates == { OldDate, Today }

(***************************************************************************)
(* str operations                                                          *)
(***************************************************************************)
\* s.startswith(p)
StartsWith(s, p) ==
    /\ Len(s) >= Len(p)
    /\ SubSeq(s, 1, Len(p)) = p

\* re.search(re.escape(p), s) is not None: p occurs in s as a substring
Search(p, s) ==
    \E i \in 1..(Len(s) - Len(p) + 1) : SubSeq(s, i, i + Len(p) - 1) = p

RECURSIVE LStrip(_)
LStrip(s) ==
    IF s # << >> /\ Head(s) \in Whitespace THEN LStrip(Tail(s)) ELSE s

RECURSIVE RStrip(_)
RStrip(s) ==
    IF s # << >> /\ s[Len(s)] \in Whitespace
    THEN RStrip(SubSeq(s, 1, Len(s) - 1))
    ELSE s

\* s.strip()
Strip(s) == LStrip(RStrip(s))

\* sep.join(parts)
RECURSIVE Join(_, _)
Join(sep, parts) ==
    IF parts = << >> THEN << >>
    ELSE IF Len(parts) = 1 THEN parts[1]
    ELSE parts[1] \o sep \o Join(sep, Tail(parts))

\* f.readlines(): the content cut after every newline
RECURSIVE ReadLinesFrom(_, _, _)
ReadLinesFrom(content, i, cur) ==
    IF i > Len(content)
    THEN IF cur = << >> THEN << >> ELSE << cur >>
    ELSE IF content[i] = NL
         THEN << Append(cur, NL) >> \o ReadLinesFrom(content, i + 1, << >>)
         ELSE ReadLinesFrom(content, i + 1, Append(cur, content[i]))

ReadLines(content) == ReadLinesFrom(content, 1, << >>)

\* f.writelines(output): the lines one after the other
RECURSIVE WriteLines(_)
WriteLines(output) ==
    IF output = << >> THEN << >> ELSE Head(output) \o WriteLines(Tail(output))

(***************************************************************************)
(* format_technology_stack                                                 *)
(***************************************************************************)
format_technology_stack(lang, framework) ==
    LET p1 == IF lang # << >> /\ lang # NEEDS_CLARIFICATION
              THEN << lang >> ELSE << >>
        p2 == IF framework # << >>
                 /\ framework \notin { NEEDS_CLARIFICATION, NOT_APPLICABLE }
              THEN << framework >> ELSE << >>
        parts == p1 \o p2
    IN  IF parts = << >> THEN << >> ELSE Join(<< " + " >>, parts)

(***************************************************************************)
(* update_existing_agent_file                                              *)
(***************************************************************************)
\* f"- {tech} ({CURRENT_BRANCH})"
TechEntry(tech, branch) == << DASH >> \o tech \o << SP, "(" >> \o branch \o << ")" >>

\* f"- {CURRENT_BRANCH}: Added {tech}"
ChangeEntry(branch, tech) == << DASH >> \o branch \o << ": Added", SP >> \o tech

\* NEW_DB and NEW_DB not in ['N/A', 'NEEDS CLARIFICATION']
DbPresent(db) == db # << >> /\ db \notin { NOT_APPLICABLE, NEEDS_CLARIFICATION }

\* the duplicate check with its "not" dropped
IsNewTechNotDropped(tech, content) == Search(tech, content)

\* the duplicate check of one candidate against the file's content
IsNewTech(tech, content) == ~Search(tech, content)

NewTechEntries(content, lang, framework, db, branch) ==
    LET tech_stack == format_technology_stack(lang, framework)
        e1 == IF tech_stack # << >> /\ IsNewTech(tech_stack, content)
              THEN << TechEntry(tech_stack, branch) >> ELSE << >>
        e2 == IF DbPresent(db) /\ IsNewTech(db, content)
              THEN << TechEntry(db, branch) >> ELSE << >>
    IN  e1 \o e2

NewChangeEntry(lang, framework, db, branch) ==
    LET tech_stack == format_technology_stack(lang, framework)
    IN  IF tech_stack # << >> THEN ChangeEntry(branch, tech_stack)
        ELSE IF DbPresent(db) THEN ChangeEntry(branch, db)
        ELSE << >>

\* output.extend(f"{entry}\n" for entry in new_tech_entries)
EntryLines(entries) == [ i \in 1..Len(entries) |-> Append(entries[i], NL) ]

\* re.search(r'\*\*Last updated\*\*: .*\d{4}-\d{2}-\d{2}', line)
MatchesLastUpdated(line) ==
    \E i \in 1..Len(line) : \E j \in (i + 1)..Len(line) :
        /\ line[i] = LU_LABEL
        /\ line[j] \in Dates
        /\ \A k \in i..(j - 1) : line[k] # NL

\* re.sub(r'\d{4}-\d{2}-\d{2}', current_date, line)
SubDates(line, current_date) ==
    [ i \in 1..Len(line) |-> IF line[i] \in Dates THEN current_date ELSE line[i] ]

\* existing_changes < 2
MaxCarried == 2

ScanInit ==
    [ output |-> << >>, in_tech |-> FALSE, in_changes |-> FALSE,
      tech_added |-> FALSE, change_added |-> FALSE, existing_changes |-> 0 ]

\* one iteration of "for line in lines"
ScanStep(s, line, new_tech_entries, new_change_entry, current_date) ==
    LET stripped == Strip(line)
        insert == ~s.tech_added /\ new_tech_entries # << >>
        withTech == IF insert THEN s.output \o EntryLines(new_tech_entries)
                    ELSE s.output
    IN  IF stripped = ACTIVE_TECH_HEADER
        THEN [ s EXCEPT !.output = Append(@, line), !.in_tech = TRUE ]
        ELSE IF s.in_tech /\ StartsWith(stripped, << HASHES >>)
        THEN [ s EXCEPT !.output = Append(withTech, line),
                        !.tech_added = @ \/ insert,
                        !.in_tech = FALSE ]
        ELSE IF s.in_tech /\ stripped = << >>
        THEN [ s EXCEPT !.output = Append(withTech, line),
                        !.tech_added = @ \/ insert ]
        ELSE IF stripped = RECENT_CHANGES_HEADER
        THEN [ s EXCEPT !.output =
                            IF new_change_entry # << >>
                            THEN Append(Append(@, line), Append(new_change_entry, NL))
                            ELSE Append(@, line),
                        !.in_changes = TRUE,
                        !.change_added = TRUE ]
        ELSE IF s.in_changes /\ StartsWith(stripped, << HASHES >>)
        THEN [ s EXCEPT !.output = Append(@, line), !.in_changes = FALSE ]
        ELSE IF s.in_changes /\ StartsWith(line, << DASH >>)
        THEN IF s.existing_changes < MaxCarried
             THEN [ s EXCEPT !.output = Append(@, line),
                             !.existing_changes = @ + 1 ]
             ELSE s
        ELSE IF MatchesLastUpdated(line)
        THEN [ s EXCEPT !.output = Append(@, SubDates(line, current_date)) ]
        ELSE [ s EXCEPT !.output = Append(@, line) ]

RECURSIVE ScanFrom(_, _, _, _, _, _)
ScanFrom(lines, i, s, new_tech_entries, new_change_entry, current_date) ==
    IF i > Len(lines) THEN s
    ELSE ScanFrom(lines, i + 1,
                  ScanStep(s, lines[i], new_tech_entries, new_change_entry, current_date),
                  new_tech_entries, new_change_entry, current_date)

\* the post-loop insertion without its test of tech_added
PostLoopUnguarded(s, new_tech_entries) ==
    IF s.in_tech /\ new_tech_entries # << >>
    THEN s.output \o EntryLines(new_tech_entries)
    ELSE s.output

\* the post-loop insertion
PostLoop(s, new_tech_entries) ==
    IF s.in_tech /\ ~s.tech_added /\ new_tech_entries # << >>
    THEN s.output \o EntryLines(new_tech_entries)
    ELSE s.output

\* the content update_existing_agent_file writes back to target_file
update_existing_agent_file(content, lang, framework, db, branch, current_date) ==
    LET new_tech_entries == NewTechEntries(content, lang, framework, db, branch)
        new_change_entry == NewChangeEntry(lang, framework, db, branch)
        s == ScanFrom(ReadLines(content), 1, ScanInit,
                      new_tech_entries, new_change_entry, current_date)
    IN  WriteLines(PostLoop(s, new_tech_entries))

(***************************************************************************)
(* create_new_agent_file: the content rendered from the template           *)
(***************************************************************************)
\* content.replace(old, new), old one token
RECURSIVE ReplaceToken(_, _, _)
ReplaceToken(content, old, new) ==
    IF content = << >> THEN << >>
    ELSE (IF Head(content) = old THEN new ELSE << Head(content) >>)
         \o ReplaceToken(Tail(content), old, new)

LowerToken(t) == IF t = "Web" THEN "web" ELSE t

\* s.lower()
Lower(s) == [ i \in 1..Len(s) |-> LowerToken(s[i]) ]

get_project_structure(project_type) ==
    IF project_type # << >> /\ Search(<< "web" >>, Lower(project_type))
    THEN << "backend/", NL, "frontend/", NL, "tests/" >>
    ELSE << "src/", NL, "tests/" >>

get_commands_for_language(lang) ==
    IF Search(<< "Python" >>, lang) THEN << "cd src && pytest && ruff check ." >>
    ELSE IF Search(<< "Rust" >>, lang) THEN << "cargo test && cargo clippy" >>
    ELSE IF Search(<< "Java", "Script" >>, lang) \/ Search(<< "Type", "Script" >>, lang)
    THEN << "npm test && npm run lint" >>
    ELSE << "# Add commands for " >> \o lang

get_language_conventions(lang) ==
    IF lang # << >> THEN lang \o << ": Follow standard conventions" >>
    ELSE << "General: Follow standard conventions" >>

tech_stack_template(lang, framework, branch) ==
    IF lang # << >> /\ framework # << >>
    THEN << DASH >> \o lang \o << " + " >> \o framework \o << SP, "(" >> \o branch \o << ")" >>
    ELSE IF lang # << >> THEN << DASH >> \o lang \o << SP, "(" >> \o branch \o << ")" >>
    ELSE IF framework # << >> THEN << DASH >> \o framework \o << SP, "(" >> \o branch \o << ")" >>
    ELSE << DASH, "(" >> \o branch \o << ")" >>

\* recent_change naming the language only
recent_change_lang_only(lang, framework, branch) ==
    IF lang # << >> THEN << DASH >> \o branch \o << ": Added", SP >> \o lang
    ELSE IF framework # << >> THEN << DASH >> \o branch \o << ": Added", SP >> \o framework
    ELSE << DASH >> \o branch \o << ": Added" >>

recent_change(lang, framework, branch) ==
    IF lang # << >> /\ framework # << >>
    THEN << DASH >> \o branch \o << ": Added", SP >> \o lang \o << " + " >> \o framework
    ELSE IF lang # << >> THEN << DASH >> \o branch \o << ": Added", SP >> \o lang
    ELSE IF framework # << >> THEN << DASH >> \o branch \o << ": Added", SP >> \o framework
    ELSE << DASH >> \o branch \o << ": Added" >>

\* the template resource: the seven placeholders, the two recognised headers
TemplateContent ==
    << "# ", "[PROJECT NAME]", " Development Guidelines", NL,
       "Auto-generated from all feature plans. Last updated: ", "[DATE]", NL,
       HASHES, "Active Technologies", NL,
       "[EXTRACTED FROM ALL DESIGN.MD FILES]", NL,
       HASHES, "Project Structure", NL,
       "[ACTUAL STRUCTURE FROM PLANS]", NL,
       HASHES, "Commands", NL,
       "[ONLY COMMANDS FOR ACTIVE TECHNOLOGIES]", NL,
       HASHES, "Code Style", NL,
       "[LANGUAGE-SPECIFIC, ONLY FOR LANGUAGES IN USE]", NL,
       HASHES, "Recent Changes", NL,
       "[LAST 3 FEATURES AND WHAT THEY ADDED]", NL >>

\* the content create_new_agent_file writes to the temporary file
create_new_agent_file(template, project_name, current_date, lang, framework, project_type, branch) ==
    LET c1 == ReplaceToken(template, "[PROJECT NAME]", project_name)
        c2 == ReplaceToken(c1, "[DATE]", << current_date >>)
        c3 == ReplaceToken(c2, "[EXTRACTED FROM ALL DESIGN.MD FILES]",
                           tech_stack_template(lang, framework, branch))
        c4 == ReplaceToken(c3, "[ACTUAL STRUCTURE FROM PLANS]",
                           get_project_structure(project_type))
        c5 == ReplaceToken(c4, "[ONLY COMMANDS FOR ACTIVE TECHNOLOGIES]",
                           get_commands_for_language(lang))
        c6 == ReplaceToken(c5, "[LANGUAGE-SPECIFIC, ONLY FOR LANGUAGES IN USE]",
                           get_language_conventions(lang))
        c7 == ReplaceToken(c6, "[LAST 3 FEATURES AND WHAT THEY ADDED]",
                           recent_change(lang, framework, branch))
    IN  ReplaceToken(c7, "\\n", << NL >>)

(***************************************************************************)
(* The agent registry                                                      *)
(***************************************************************************)
AGENT_FILES ==
    << << "claude", "CLAUDE.md" >>,
       << "gemini", "GEMINI.md" >>,
       << "copilot", ".github/agents/copilot-instructions.md" >>,
       << "cursor-agent", ".cursor/rules/sunrise-rules.mdc" >>,
       << "qwen", "QWEN.md" >>,
       << "opencode", "AGENTS.md" >>,
       << "codex", "AGENTS.md" >>,
       << "windsurf", ".windsurf/rules/sunrise-rules.md" >>,
       << "kilocode", ".kilocode/rules/sunrise-rules.md" >>,
       << "auggie", ".augment/rules/sunrise-rules.md" >>,
       << "roo", ".roo/rules/sunrise-rules.md" >>,
       << "codebuddy", "CODEBUDDY.md" >>,
       << "amp", "AGENTS.md" >>,
       << "shai", "SHAI.md" >>,
       << "q", "AGENTS.md" >>,
       << "bob", "AGENTS.md" >>,
       << "jules", "AGENTS.md" >>,
       << "qoder", "QODER.md" >>,
       << "antigravity", "AGENTS.md" >> >>

AgentIds == { AGENT_FILES[i][1] : i \in 1..Len(AGENT_FILES) }
Paths == { AGENT_FILES[i][2] : i \in 1..Len(AGENT_FILES) }

\* AGENT_FILES[agent_type]
PathOf(agent) == AGENT_FILES[CHOOSE i \in 1..Len(AGENT_FILES) : AGENT_FILES[i][1] = agent][2]

\* Path(target_file).parent, "." the repository root
ParentOf(path) ==
    CASE path = ".github/agents/copilot-instructions.md" -> ".github/agents"
      [] path = ".cursor/rules/sunrise-rules.mdc" -> ".cursor/rules"
      [] path = ".windsurf/rules/sunrise-rules.md" -> ".windsurf/rules"
      [] path = ".kilocode/rules/sunrise-rules.md" -> ".kilocode/rules"
      [] path = ".augment/rules/sunrise-rules.md" -> ".augment/rules"
      [] path = ".roo/rules/sunrise-rules.md" -> ".roo/rules"
      [] OTHER -> "."

Absent == << "<no file>" >>
NoAgent == ""

(***************************************************************************)
(* common.py: branch validation                                            *)
(***************************************************************************)
Digits3 == { "000", "001", "002", "003", "009" }
MainBranch == << "main" >>

\* re.match(r'^\d{3}-', branch)
MatchesFeaturePrefix(branch) ==
    Len(branch) >= 2 /\ branch[1] \in Digits3 /\ branch[2] = "-"

\* check_feature_branch with the pattern tested before the presence of git
check_feature_branch_pattern_first(branch, git_found) ==
    MatchesFeaturePrefix(branch)

check_feature_branch(branch, has_git) ==
    IF ~has_git THEN TRUE
    ELSE MatchesFeaturePrefix(branch)

(***************************************************************************)
(* The inputs of a sync: NEW_LANG, NEW_FRAMEWORK, NEW_DB as parse_plan_data *)
(* leaves them ('' when absent), CURRENT_BRANCH, and the date.              *)
(***************************************************************************)
Java == << "Java" >>
JavaScript == << "Java", "Script" >>
Gin == << "Gin" >>
Postgres == << "PostgreSQL" >>
Branch1 == << "001", "-", "a" >>
Branch2 == << "002", "-", "b" >>

Langs == { << >>, Java, JavaScript }
Frameworks == { << >>, Gin }
Dbs == { << >>, Postgres }
Branches == { Branch1, Branch2 }

PlanInputs == [ lang : Langs, framework : Frameworks, db : Dbs, branch : Branches ]

Sync(content, in) ==
    update_existing_agent_file(content, in.lang, in.framework, in.db, in.branch, Today)

(***************************************************************************)
(* The context files a sync may find: up to MaxSections sections, each a   *)
(* '## ' header line followed by one of a few bodies, with or without the  *)
(* newline that ends the last line.                                        *)
(***************************************************************************)
MaxSections == 3

OTHER_HEADER == << HASHES, "Project Structure" >>
Headers == { ACTIVE_TECH_HEADER, RECENT_CHANGES_HEADER, OTHER_HEADER }

Old1 == ChangeEntry(Branch1, Gin)
Old2 == << DASH, "old2" >>
Old3 == << DASH, "old3" >>
LastUpdatedLine == << LU_LABEL, OldDate >>

Bodies ==
    { << >>,
      << TechEntry(JavaScript, Branch1), << >> >>,
      << Old1, Old2, Old3 >>,
      << LastUpdatedLine >> }

\* the lines of a section, each ended by a newline
SectionLines(sec) == EntryLines(<< sec[1] >> \o sec[2])

RECURSIVE SectionsContent(_)
SectionsContent(secs) ==
    IF secs = << >> THEN << >>
    ELSE WriteLines(SectionLines(Head(secs))) \o SectionsContent(Tail(secs))

FileOf(secs, finalNewline) ==
    LET c == SectionsContent(secs)
    IN  IF finalNewline \/ c = << >> THEN c ELSE SubSeq(c, 1, Len(c) - 1)

\* no call of get_feature_paths() is modelled
NoLocate ==
    /\ fenv = << >>
    /\ lpc = "off"
    /\ paths = << >>
    /\ out = { }
    /\ valid = FALSE
    /\ raisedIn = ""

\* no design.md is modelled
NoPlan ==
    /\ doc = << >>
    /\ plan = << >>
    /\ fmt = << >>

\* no call of update_existing_agent_file is followed line by line
NoScan ==
    /\ scanIn = << >>
    /\ scanLines = << >>
    /\ spos = 0
    /\ st = << >>

\* no run of main() is modelled
NoRun ==
    /\ pc = "off"
    /\ env = << >>
    /\ fs = [ p \in Paths |-> Absent ]
    /\ tmp = [ p \in Paths |-> Absent ]
    /\ dirs = { "." }
    /\ fs0 = fs
    /\ agentArg = NoAgent
    /\ idx = 1
    /\ call = << >>
    /\ ret = ""
    /\ pending = << >>
    /\ found = FALSE
    /\ success = TRUE
    /\ exitCode = -1
    /\ enumerated = FALSE
    /\ attempted = { }
    /\ synced = { }
    /\ crashedAt = ""

Init ==
    /\ NoRun
    /\ NoLocate
    /\ NoPlan
    /\ NoScan
    /\ \E k \in 0..MaxSections : \E secs \in [ 1..k -> Headers \X Bodies ] :
          \E finalNewline \in BOOLEAN :
              file = FileOf(secs, finalNewline)
    /\ prev = file
    /\ file0 = file
    /\ hist = << >>

\* one run of update_existing_agent_file on the file
SyncOnce ==
    /\ hist = << >>
    /\ \E in \in PlanInputs :
          /\ file' = Sync(file, in)
          /\ hist' = << in >>
    /\ prev' = file
    /\ UNCHANGED file0
    /\ UNCHANGED runVars
    /\ UNCHANGED << locVars, planVars, scanVars >>

Next == SyncOnce

Spec == Init /\ [][Next]_vars

(***************************************************************************)
(* Repeated syncs of one file: a few layouts, up to MaxSyncs runs of       *)
(* update_existing_agent_file, the PlanFields and branch chosen anew for   *)
(* every run (the design document may change between runs).                *)
(***************************************************************************)
MaxSyncs == 4

JsSection == << ACTIVE_TECH_HEADER, << TechEntry(JavaScript, Branch1), << >> >> >>

SeqFiles ==
    { \* Active Technologies, another section, Recent Changes (the template's order)
      FileOf(<< JsSection, << OTHER_HEADER, << >> >>,
                << RECENT_CHANGES_HEADER, << Old1 >> >> >>, TRUE),
      \* Recent Changes right after Active Technologies
      FileOf(<< JsSection, << RECENT_CHANGES_HEADER, << Old1, Old2, Old3 >> >> >>, TRUE),
      \* Recent Changes alone
      FileOf(<< << RECENT_CHANGES_HEADER, << Old1, Old2, Old3 >> >> >>, TRUE),
      \* Recent Changes before Active Technologies
      FileOf(<< << RECENT_CHANGES_HEADER, << Old1 >> >>, JsSection >>, TRUE) }

SeqInputs == [ lang : Langs, framework : Frameworks, db : { << >> }, branch : Branches ]

InitSeq ==
    /\ NoRun
    /\ NoLocate
    /\ NoPlan
    /\ NoScan
    /\ file \in SeqFiles
    /\ prev = file
    /\ file0 = file
    /\ hist = << >>

\* one more run of update_existing_agent_file on the file
SyncAgain ==
    /\ Len(hist) < MaxSyncs
    /\ \E in \in SeqInputs :
          /\ file' = Sync(file, in)
          /\ hist' = << in >> \o hist
    /\ prev' = file
    /\ UNCHANGED file0
    /\ UNCHANGED runVars
    /\ UNCHANGED << locVars, planVars, scanVars >>

NextSeq == SyncAgain

SeqSpec == InitSeq /\ [][NextSeq]_vars

(***************************************************************************)
(* One run of main(): the preconditions, the dispatch on agent_type, and   *)
(* update_agent_file for every agent it reaches, one file operation per    *)
(* step.  A file operation may raise (OSError); nothing in the script      *)
(* catches it, so the exception ends the process (exit code 1).            *)
(***************************************************************************)
MaxExisting == 2

ProjectName == << "repo" >>

RunPlans ==
    { [ lang |-> Java, framework |-> << >>, db |-> << >>, project_type |-> << >> ],
      [ lang |-> JavaScript, framework |-> Gin, db |-> Postgres,
        project_type |-> << "Web", " app" >> ] }

Requested == { NoAgent, "claude", "copilot", "codex", "nosuch" }

\* an existing context file: one this script created for an earlier feature
SeedContent ==
    create_new_agent_file(TemplateContent, ProjectName, OldDate,
                          JavaScript, << >>, << >>, Branch2)

InitRun ==
    /\ file = << >> /\ prev = << >> /\ hist = << >> /\ file0 = << >>
    /\ NoLocate
    /\ NoPlan
    /\ NoScan
    /\ pc = "main"
    /\ env \in [ agent_type : Requested, branch : { Branch1, MainBranch },
                 has_git : BOOLEAN, design : BOOLEAN, template : BOOLEAN,
                 plan : RunPlans ]
    /\ \E existing \in SUBSET Paths :
          /\ Cardinality(existing) <= MaxExisting
          /\ fs = [ p \in Paths |-> IF p \in existing THEN SeedContent ELSE Absent ]
          /\ dirs = { "." } \cup { ParentOf(p) : p \in existing }
    /\ tmp = [ p \in Paths |-> Absent ]
    /\ fs0 = fs
    /\ agentArg = NoAgent
    /\ idx = 1
    /\ call = << >>
    /\ ret = ""
    /\ pending = << >>
    /\ found = FALSE
    /\ success = TRUE
    /\ exitCode = -1
    /\ enumerated = FALSE
    /\ attempted = { }
    /\ synced = { }
    /\ crashedAt = ""

\* sys.exit(code)
Exit(code) ==
    /\ pc' = "exit"
    /\ exitCode' = code

\* an exception nothing catches: traceback, exit code 1
Raise ==
    /\ pc' = "crashed"
    /\ crashedAt' = pc
    /\ exitCode' = 1

\* main() without its check of TEMPLATE_FILE
MainPreconditionsNoTemplateCheck ==
    /\ pc = "main"
    /\ IF ~check_feature_branch(env.branch, env.has_git) THEN Exit(1) /\ UNCHANGED agentArg
       ELSE IF ~env.design THEN Exit(1) /\ UNCHANGED agentArg
       ELSE IF env.agent_type # NoAgent
            THEN pc' = "specific" /\ agentArg' = env.agent_type /\ UNCHANGED exitCode
            ELSE pc' = "all" /\ UNCHANGED << agentArg, exitCode >>
    /\ UNCHANGED << env, fs, tmp, dirs, fs0, idx, call, ret, pending, found, success,
                    enumerated, attempted, synced, crashedAt >>
    /\ UNCHANGED mergeVars
    /\ UNCHANGED << locVars, planVars, scanVars >>

\* main() up to the dispatch: validation, design.md, template, parse_plan_data
MainPreconditions ==
    /\ pc = "main"
    /\ IF ~check_feature_branch(env.branch, env.has_git) THEN Exit(1) /\ UNCHANGED agentArg
       ELSE IF ~env.design THEN Exit(1) /\ UNCHANGED agentArg
       ELSE IF ~env.template THEN Exit(1) /\ UNCHANGED agentArg
       ELSE IF env.agent_type # NoAgent
            THEN pc' = "specific" /\ agentArg' = env.agent_type /\ UNCHANGED exitCode
            ELSE pc' = "all" /\ UNCHANGED << agentArg, exitCode >>
    /\ UNCHANGED << env, fs, tmp, dirs, fs0, idx, call, ret, pending, found, success,
                    enumerated, attempted, synced, crashedAt >>
    /\ UNCHANGED mergeVars
    /\ UNCHANGED << locVars, planVars, scanVars >>

\* update_specific_agent without its registry check: an unknown agent_type
\* gets the default target
UpdateSpecificAgentUnchecked ==
    /\ pc = "specific"
    /\ call' = << agentArg,
                  IF agentArg \in AgentIds THEN PathOf(agentArg) ELSE "CLAUDE.md" >>
    /\ ret' = "specific"
    /\ pc' = "update_agent_file"
    /\ UNCHANGED << enumerated, success >>
    /\ UNCHANGED << env, fs, tmp, dirs, fs0, agentArg, idx, pending, found, exitCode,
                    attempted, synced, crashedAt >>
    /\ UNCHANGED mergeVars
    /\ UNCHANGED << locVars, planVars, scanVars >>

\* update_specific_agent up to its call of update_agent_file
UpdateSpecificAgent ==
    /\ pc = "specific"
    /\ IF agentArg \notin AgentIds
       THEN /\ enumerated' = TRUE
            /\ success' = FALSE
            /\ pc' = "summary"
            /\ UNCHANGED << call, ret >>
       ELSE /\ call' = << agentArg, PathOf(agentArg) >>
            /\ ret' = "specific"
            /\ pc' = "update_agent_file"
            /\ UNCHANGED << enumerated, success >>
    /\ UNCHANGED << env, fs, tmp, dirs, fs0, agentArg, idx, pending, found, exitCode,
                    attempted, synced, crashedAt >>
    /\ UNCHANGED mergeVars
    /\ UNCHANGED << locVars, planVars, scanVars >>

\* one iteration of the loop of update_all_existing_agents
AllAgentsIterate ==
    /\ pc = "all"
    /\ idx <= Len(AGENT_FILES)
    /\ IF fs[AGENT_FILES[idx][2]] # Absent
       THEN /\ call' = AGENT_FILES[idx]
            /\ ret' = "all"
            /\ pc' = "update_agent_file"
            /\ UNCHANGED idx
       ELSE /\ idx' = idx + 1
            /\ UNCHANGED << call, ret, pc >>
    /\ UNCHANGED << env, fs, tmp, dirs, fs0, agentArg, pending, found, success, exitCode,
                    enumerated, attempted, synced, crashedAt >>
    /\ UNCHANGED mergeVars
    /\ UNCHANGED << locVars, planVars, scanVars >>

\* after the loop: the default agent when no file was found
AllAgentsFinish ==
    /\ pc = "all"
    /\ idx > Len(AGENT_FILES)
    /\ IF ~found
       THEN pc' = "specific" /\ agentArg' = "claude"
       ELSE pc' = "summary" /\ UNCHANGED agentArg
    /\ UNCHANGED << env, fs, tmp, dirs, fs0, idx, call, ret, pending, found, success,
                    exitCode, enumerated, attempted, synced, crashedAt >>
    /\ UNCHANGED mergeVars
    /\ UNCHANGED << locVars, planVars, scanVars >>

\* update_agent_file returns ok to its caller
Return(ok) ==
    /\ synced' = IF ok THEN synced \cup { call[1] } ELSE synced
    /\ success' = (success /\ ok)
    /\ IF ret = "all"
       THEN pc' = "all" /\ idx' = idx + 1 /\ found' = TRUE
       ELSE pc' = "summary" /\ UNCHANGED << idx, found >>

\* update_agent_file: mkdir(parents=True, exist_ok=True), then create or update
UpdateAgentFile ==
    /\ pc = "update_agent_file"
    /\ attempted' = attempted \cup { call[1] }
    /\ dirs' = dirs \cup { ParentOf(call[2]) }
    /\ pc' = IF fs[call[2]] = Absent THEN "create_read" ELSE "update_read"
    /\ UNCHANGED << env, fs, tmp, fs0, agentArg, idx, call, ret, pending, found, success,
                    exitCode, enumerated, synced, crashedAt >>
    /\ UNCHANGED mergeVars
    /\ UNCHANGED << locVars, planVars, scanVars >>

\* the parent directory cannot be created
MkdirRaises ==
    /\ pc = "update_agent_file"
    /\ ParentOf(call[2]) \notin dirs
    /\ attempted' = attempted \cup { call[1] }
    /\ Raise
    /\ UNCHANGED << env, fs, tmp, dirs, fs0, agentArg, idx, call, ret, pending, found,
                    success, enumerated, synced >>
    /\ UNCHANGED mergeVars
    /\ UNCHANGED << locVars, planVars, scanVars >>

\* update_existing_agent_file: the reads of target_file and the merge
UpdateRead ==
    /\ pc = "update_read"
    /\ pending' = update_existing_agent_file(fs[call[2]], env.plan.lang,
                      env.plan.framework, env.plan.db, env.branch, Today)
    /\ pc' = "update_open"
    /\ UNCHANGED << env, fs, tmp, dirs, fs0, agentArg, idx, call, ret, found, success,
                    exitCode, enumerated, attempted, synced, crashedAt >>
    /\ UNCHANGED mergeVars
    /\ UNCHANGED << locVars, planVars, scanVars >>

\* target_file cannot be read
UpdateReadRaises ==
    /\ pc = "update_read"
    /\ Raise
    /\ UNCHANGED << env, fs, tmp, dirs, fs0, agentArg, idx, call, ret, pending, found,
                    success, enumerated, attempted, synced >>
    /\ UNCHANGED mergeVars
    /\ UNCHANGED << locVars, planVars, scanVars >>

\* open(target_file, 'w'): the file is truncated
UpdateOpen ==
    /\ pc = "update_open"
    /\ fs' = [ fs EXCEPT ![call[2]] = << >> ]
    /\ pc' = "update_write"
    /\ UNCHANGED << env, tmp, dirs, fs0, agentArg, idx, call, ret, pending, found, success,
                    exitCode, enumerated, attempted, synced, crashedAt >>
    /\ UNCHANGED mergeVars
    /\ UNCHANGED << locVars, planVars, scanVars >>

\* target_file cannot be opened for writing
UpdateOpenRaises ==
    /\ pc = "update_open"
    /\ Raise
    /\ UNCHANGED << env, fs, tmp, dirs, fs0, agentArg, idx, call, ret, pending, found,
                    success, enumerated, attempted, synced >>
    /\ UNCHANGED mergeVars
    /\ UNCHANGED << locVars, planVars, scanVars >>

\* f.writelines(output), close, return True
UpdateWrite ==
    /\ pc = "update_write"
    /\ fs' = [ fs EXCEPT ![call[2]] = pending ]
    /\ Return(TRUE)
    /\ UNCHANGED << env, tmp, dirs, fs0, agentArg, call, ret, pending, exitCode,
                    enumerated, attempted, crashedAt >>
    /\ UNCHANGED mergeVars
    /\ UNCHANGED << locVars, planVars, scanVars >>

\* the lines written before a write that fails part-way
PartialWrites(content) ==
    LET lines == ReadLines(content)
    IN  { WriteLines(SubSeq(lines, 1, k)) : k \in 0..(Len(lines) - 1) }

\* the write fails part-way
UpdateWriteRaises ==
    /\ pc = "update_write"
    /\ \E part \in PartialWrites(pending) : fs' = [ fs EXCEPT ![call[2]] = part ]
    /\ Raise
    /\ UNCHANGED << env, tmp, dirs, fs0, agentArg, idx, call, ret, pending, found,
                    success, enumerated, attempted, synced >>
    /\ UNCHANGED mergeVars
    /\ UNCHANGED << locVars, planVars, scanVars >>

\* create_new_agent_file: the template check, the read of the template, the rendering
CreateRead ==
    /\ pc = "create_read"
    /\ IF ~env.template
       THEN Return(FALSE) /\ UNCHANGED pending
       ELSE /\ pending' = create_new_agent_file(TemplateContent, ProjectName, Today,
                              env.plan.lang, env.plan.framework,
                              env.plan.project_type, env.branch)
            /\ pc' = "create_open"
            /\ UNCHANGED << idx, found, success, synced >>
    /\ UNCHANGED << env, fs, tmp, dirs, fs0, agentArg, call, ret, exitCode, enumerated,
                    attempted, crashedAt >>
    /\ UNCHANGED mergeVars
    /\ UNCHANGED << locVars, planVars, scanVars >>

\* the template cannot be read
CreateReadRaises ==
    /\ pc = "create_read"
    /\ Raise
    /\ UNCHANGED << env, fs, tmp, dirs, fs0, agentArg, idx, call, ret, pending, found,
                    success, enumerated, attempted, synced >>
    /\ UNCHANGED mergeVars
    /\ UNCHANGED << locVars, planVars, scanVars >>

\* open(...) on the target itself: the temporary path is the target path
CreateOpenInPlace ==
    /\ pc = "create_open"
    /\ tmp' = [ tmp EXCEPT ![call[2]] = << >> ]
    /\ fs' = [ fs EXCEPT ![call[2]] = << >> ]
    /\ pc' = "create_write"
    /\ UNCHANGED << env, dirs, fs0, agentArg, idx, call, ret, pending, found, success,
                    exitCode, enumerated, attempted, synced, crashedAt >>
    /\ UNCHANGED mergeVars
    /\ UNCHANGED << locVars, planVars, scanVars >>

\* open(temp_file, 'w')
CreateOpenTemp ==
    /\ pc = "create_open"
    /\ tmp' = [ tmp EXCEPT ![call[2]] = << >> ]
    /\ pc' = "create_write"
    /\ UNCHANGED << env, fs, dirs, fs0, agentArg, idx, call, ret, pending, found, success,
                    exitCode, enumerated, attempted, synced, crashedAt >>
    /\ UNCHANGED mergeVars
    /\ UNCHANGED << locVars, planVars, scanVars >>

\* the temporary file cannot be opened for writing
CreateOpenTempRaises ==
    /\ pc = "create_open"
    /\ Raise
    /\ UNCHANGED << env, fs, tmp, dirs, fs0, agentArg, idx, call, ret, pending, found,
                    success, enumerated, attempted, synced >>
    /\ UNCHANGED mergeVars
    /\ UNCHANGED << locVars, planVars, scanVars >>

\* f.write(content), close
CreateWrite ==
    /\ pc = "create_write"
    /\ tmp' = [ tmp EXCEPT ![call[2]] = pending ]
    /\ pc' = "create_replace"
    /\ UNCHANGED << env, fs, dirs, fs0, agentArg, idx, call, ret, pending, found, success,
                    exitCode, enumerated, attempted, synced, crashedAt >>
    /\ UNCHANGED mergeVars
    /\ UNCHANGED << locVars, planVars, scanVars >>

\* the write to the temporary file fails part-way
CreateWriteRaises ==
    /\ pc = "create_write"
    /\ \E part \in PartialWrites(pending) : tmp' = [ tmp EXCEPT ![call[2]] = part ]
    /\ Raise
    /\ UNCHANGED << env, fs, dirs, fs0, agentArg, idx, call, ret, pending, found,
                    success, enumerated, attempted, synced >>
    /\ UNCHANGED mergeVars
    /\ UNCHANGED << locVars, planVars, scanVars >>

\* temp_file.replace(target_file), return True
CreateReplace ==
    /\ pc = "create_replace"
    /\ fs' = [ fs EXCEPT ![call[2]] = tmp[call[2]] ]
    /\ tmp' = [ tmp EXCEPT ![call[2]] = Absent ]
    /\ Return(TRUE)
    /\ UNCHANGED << env, dirs, fs0, agentArg, call, ret, pending, exitCode, enumerated,
                    attempted, crashedAt >>
    /\ UNCHANGED mergeVars
    /\ UNCHANGED << locVars, planVars, scanVars >>

\* the rename fails
CreateReplaceRaises ==
    /\ pc = "create_replace"
    /\ Raise
    /\ UNCHANGED << env, fs, tmp, dirs, fs0, agentArg, idx, call, ret, pending, found,
                    success, enumerated, attempted, synced >>
    /\ UNCHANGED mergeVars
    /\ UNCHANGED << locVars, planVars, scanVars >>

\* print_summary(), then sys.exit(0) whatever success is
SummaryAndExitZero ==
    /\ pc = "summary"
    /\ Exit(0)
    /\ UNCHANGED << env, fs, tmp, dirs, fs0, agentArg, idx, call, ret, pending, found,
                    success, enumerated, attempted, synced, crashedAt >>
    /\ UNCHANGED mergeVars
    /\ UNCHANGED << locVars, planVars, scanVars >>

\* print_summary(), then sys.exit(0) or sys.exit(1)
SummaryAndExit ==
    /\ pc = "summary"
    /\ Exit(IF success THEN 0 ELSE 1)
    /\ UNCHANGED << env, fs, tmp, dirs, fs0, agentArg, idx, call, ret, pending, found,
                    success, enumerated, attempted, synced, crashedAt >>
    /\ UNCHANGED mergeVars
    /\ UNCHANGED << locVars, planVars, scanVars >>

NextRun ==
    \/ MainPreconditions
    \/ UpdateSpecificAgent
    \/ AllAgentsIterate
    \/ AllAgentsFinish
    \/ UpdateAgentFile
    \/ MkdirRaises
    \/ UpdateRead
    \/ UpdateReadRaises
    \/ UpdateOpen
    \/ UpdateOpenRaises
    \/ UpdateWrite
    \/ UpdateWriteRaises
    \/ CreateRead
    \/ CreateReadRaises
    \/ CreateOpenTemp
    \/ CreateOpenTempRaises
    \/ CreateWrite
    \/ CreateWriteRaises
    \/ CreateReplace
    \/ CreateReplaceRaises
    \/ SummaryAndExit

RunSpec == InitRun /\ [][NextRun]_vars

(***************************************************************************)
(* common.py: one call of get_feature_paths(), one function per step, then *)
(* the branch validation main() does with its result.  The call finds an   *)
(* environment: SPECIFY_FEATURE, what git answers, and the entries of the  *)
(* specs directory (if there is one).                                      *)
(***************************************************************************)
\* os.getenv gives None
Unset == << "<unset>" >>

Foo == << "foo" >>
Zero == << "000", "-", "zero" >>
Alpha == << "003", "-", "alpha" >>
Beta == << "003", "-", "beta" >>
Gamma == << "003", "-", "gamma" >>
TwoDigits == << "12", "-", "x" >>
FourDigits == << "0012", "-", "x" >>
File9 == << "009", "-", "file" >>
Notes == << "notes" >>

\* int(m.group(1))
NumOf(tok) ==
    CASE tok = "000" -> 0
      [] tok = "001" -> 1
      [] tok = "002" -> 2
      [] tok = "003" -> 3
      [] tok = "009" -> 9

Entry(name, is_dir) == [ name |-> name, is_dir |-> is_dir ]

SpecsEntries ==
    { Entry(Zero, TRUE), Entry(Branch1, TRUE), Entry(Alpha, TRUE), Entry(Beta, TRUE),
      Entry(Notes, TRUE), Entry(File9, FALSE) }

MaxEntries == 3

Overrides == { Unset, << >>, Gamma, Foo }

\* git answers both queries; only --show-toplevel; neither (not a
\* repository); or the git program is not there
GitStates == { "ok", "nohead", "norepo", "missing" }

GitBranches == { MainBranch, Branch1, Alpha, Gamma, TwoDigits, FourDigits }

\* the orders iterdir() may list a set of entries in
Perms(S) ==
    { f \in [ 1..Cardinality(S) -> S ] :
        \A i, j \in 1..Cardinality(S) : i # j => f[i] # f[j] }

\* git rev-parse --show-toplevel succeeds
GitTopLevelOk(e) == e.git \in { "ok", "nohead" }

\* git rev-parse --abbrev-ref HEAD succeeds
GitHeadOk(e) == e.git = "ok"

\* subprocess.run raises FileNotFoundError, which no except clause names
GitRaises(e) == e.git = "missing"

get_repo_root(e) == IF GitTopLevelOk(e) THEN "toplevel" ELSE "script_dir/../../.."

has_git(e) == GitTopLevelOk(e)

\* the loop over specs_dir.iterdir()
RECURSIVE LatestFeatureFrom(_, _, _, _)
LatestFeatureFrom(order, i, highest, latest_feature) ==
    IF i > Len(order) THEN latest_feature
    ELSE IF /\ order[i].is_dir
            /\ MatchesFeaturePrefix(order[i].name)
            /\ NumOf(order[i].name[1]) > highest
         THEN LatestFeatureFrom(order, i + 1, NumOf(order[i].name[1]), order[i].name)
         ELSE LatestFeatureFrom(order, i + 1, highest, latest_feature)

get_current_branch(e, order) ==
    IF e.specify # Unset /\ e.specify # << >> THEN e.specify
    ELSE IF GitHeadOk(e) THEN e.git_branch
    ELSE IF e.specs /\ LatestFeatureFrom(order, 1, 0, << >>) # << >>
         THEN LatestFeatureFrom(order, 1, 0, << >>)
         ELSE MainBranch

\* the directories whose name starts with the prefix of branch_name and '-'
Matching(e, branch_name) ==
    { d \in e.entries : /\ d.is_dir
                        /\ Len(d.name) >= 2
                        /\ d.name[1] = branch_name[1]
                        /\ d.name[2] = "-" }

\* specs_dir.iterdir() on a directory that does not exist
IterdirRaises(e, branch_name) == MatchesFeaturePrefix(branch_name) /\ ~e.specs

\* the directory under specs/ returned, and whether the ERROR lines were printed
find_feature_dir_by_prefix(e, branch_name) ==
    IF ~MatchesFeaturePrefix(branch_name)
    THEN [ dir |-> branch_name, error |-> FALSE ]
    ELSE IF Matching(e, branch_name) = { }
         THEN [ dir |-> branch_name, error |-> FALSE ]
         ELSE IF Cardinality(Matching(e, branch_name)) = 1
              THEN [ dir |-> (CHOOSE d \in Matching(e, branch_name) : TRUE).name,
                     error |-> FALSE ]
              ELSE [ dir |-> branch_name, error |-> TRUE ]

\* what check_feature_branch prints
check_feature_branch_prints(branch, git_found) ==
    IF ~git_found THEN { "warning" }
    ELSE IF ~MatchesFeaturePrefix(branch) THEN { "not_feature_branch" }
    ELSE { }

InitLoc ==
    /\ file = << >> /\ prev = << >> /\ hist = << >> /\ file0 = << >>
    /\ NoRun
    /\ NoPlan
    /\ NoScan
    /\ \E specify \in Overrides, git \in GitStates, git_branch \in GitBranches \cup { << >> },
          specs \in BOOLEAN, entries \in SUBSET SpecsEntries :
          /\ git_branch = << >> <=> git # "ok"
          /\ Cardinality(entries) <= MaxEntries
          /\ ~specs => entries = { }
          /\ fenv = [ specify |-> specify, git |-> git, git_branch |-> git_branch,
                      specs |-> specs, entries |-> entries ]
    /\ lpc = "get_repo_root"
    /\ paths = [ REPO_ROOT |-> "", CURRENT_BRANCH |-> Unset, HAS_GIT |-> FALSE,
                 FEATURE_DIR |-> Unset ]
    /\ out = { }
    /\ valid = FALSE
    /\ raisedIn = ""

LocIdle == UNCHANGED << mergeVars, runVars, planVars, scanVars >>

GetRepoRoot ==
    /\ lpc = "get_repo_root"
    /\ ~GitRaises(fenv)
    /\ paths' = [ paths EXCEPT !.REPO_ROOT = get_repo_root(fenv) ]
    /\ lpc' = "get_current_branch"
    /\ UNCHANGED << fenv, out, valid, raisedIn >>
    /\ LocIdle

GetRepoRootRaises ==
    /\ lpc = "get_repo_root"
    /\ GitRaises(fenv)
    /\ lpc' = "raised"
    /\ raisedIn' = "get_repo_root"
    /\ UNCHANGED << fenv, paths, out, valid >>
    /\ LocIdle

GetCurrentBranch ==
    /\ lpc = "get_current_branch"
    /\ \E order \in Perms(fenv.entries) :
          paths' = [ paths EXCEPT !.CURRENT_BRANCH = get_current_branch(fenv, order) ]
    /\ lpc' = "has_git"
    /\ UNCHANGED << fenv, out, valid, raisedIn >>
    /\ LocIdle

HasGit ==
    /\ lpc = "has_git"
    /\ paths' = [ paths EXCEPT !.HAS_GIT = has_git(fenv) ]
    /\ lpc' = "find_feature_dir"
    /\ UNCHANGED << fenv, out, valid, raisedIn >>
    /\ LocIdle

FindFeatureDir ==
    /\ lpc = "find_feature_dir"
    /\ ~IterdirRaises(fenv, paths.CURRENT_BRANCH)
    /\ LET r == find_feature_dir_by_prefix(fenv, paths.CURRENT_BRANCH)
       IN  /\ paths' = [ paths EXCEPT !.FEATURE_DIR = r.dir ]
           /\ out' = IF r.error THEN out \cup { "multiple" } ELSE out
    /\ lpc' = "check_feature_branch"
    /\ UNCHANGED << fenv, valid, raisedIn >>
    /\ LocIdle

FindFeatureDirRaises ==
    /\ lpc = "find_feature_dir"
    /\ IterdirRaises(fenv, paths.CURRENT_BRANCH)
    /\ lpc' = "raised"
    /\ raisedIn' = "find_feature_dir_by_prefix"
    /\ UNCHANGED << fenv, paths, out, valid >>
    /\ LocIdle

\* main(): check_feature_branch(CURRENT_BRANCH, paths['HAS_GIT'] == 'true')
CheckFeatureBranch ==
    /\ lpc = "check_feature_branch"
    /\ valid' = check_feature_branch(paths.CURRENT_BRANCH, paths.HAS_GIT)
    /\ out' = out \cup check_feature_branch_prints(paths.CURRENT_BRANCH, paths.HAS_GIT)
    /\ lpc' = "done"
    /\ UNCHANGED << fenv, paths, raisedIn >>
    /\ LocIdle

NextLoc ==
    \/ GetRepoRoot
    \/ GetRepoRootRaises
    \/ GetCurrentBranch
    \/ HasGit
    \/ FindFeatureDir
    \/ FindFeatureDirRaises
    \/ CheckFeatureBranch

LocSpec == InitLoc /\ [][NextLoc]_vars

(***************************************************************************)
(* design.md and the fields taken from it: extract_plan_field,             *)
(* parse_plan_data, and format_technology_stack on arguments of any kind.  *)
(* A document is a sequence of lines, a line a sequence of tokens without  *)
(* its newline.                                                            *)
(***************************************************************************)
LANG_LABEL == "Language/Version"
FRAMEWORK_LABEL == "Primary Dependencies"
DB_LABEL == "Storage"
PROJECT_TYPE_LABEL == "Project Type"

\* the line '**<label>**: <value>'
FieldLine(label, value) == << "**", label, "**:", SP >> \o value

\* rf"^\*\*{re.escape(field_pattern)}\*\*: (.+)$" matches the line
MatchesField(line, field_pattern) ==
    /\ Len(line) >= 5
    /\ line[1] = "**"
    /\ line[2] = field_pattern
    /\ line[3] = "**:"
    /\ line[4] = SP

\* re.search(pattern, content, re.MULTILINE): the first line that matches, 0 if none
RECURSIVE SearchField(_, _, _)
SearchField(field_pattern, lines, i) ==
    IF i > Len(lines) THEN 0
    ELSE IF MatchesField(lines[i], field_pattern) THEN i
    ELSE SearchField(field_pattern, lines, i + 1)

\* the last line that matches, 0 if none
RECURSIVE SearchFieldLast(_, _, _)
SearchFieldLast(field_pattern, lines, i) ==
    IF i < 1 THEN 0
    ELSE IF MatchesField(lines[i], field_pattern) THEN i
    ELSE SearchFieldLast(field_pattern, lines, i - 1)

\* match.group(1).strip(), '' for a sentinel
FieldValue(line) ==
    LET val == Strip(SubSeq(line, 5, Len(line)))
    IN  IF val \notin { NEEDS_CLARIFICATION, NOT_APPLICABLE } THEN val ELSE << >>

\* extract_plan_field where the last match wins
extract_plan_field_last_match(field_pattern, plan_file) ==
    IF ~plan_file.exists THEN << >>
    ELSE IF SearchFieldLast(field_pattern, plan_file.lines, Len(plan_file.lines)) = 0
         THEN << >>
         ELSE FieldValue(plan_file.lines[
                  SearchFieldLast(field_pattern, plan_file.lines, Len(plan_file.lines))])

extract_plan_field(field_pattern, plan_file) ==
    IF ~plan_file.exists THEN << >>
    ELSE IF SearchField(field_pattern, plan_file.lines, 1) = 0 THEN << >>
         ELSE FieldValue(plan_file.lines[SearchField(field_pattern, plan_file.lines, 1)])

\* the return value and the four globals
parse_plan_data(plan_file) ==
    IF ~plan_file.exists
    THEN [ parsed |-> FALSE, lang |-> << >>, framework |-> << >>, db |-> << >>,
           project_type |-> << >> ]
    ELSE [ parsed |-> TRUE,
           lang |-> extract_plan_field(LANG_LABEL, plan_file),
           framework |-> extract_plan_field(FRAMEWORK_LABEL, plan_file),
           db |-> extract_plan_field(DB_LABEL, plan_file),
           project_type |-> extract_plan_field(PROJECT_TYPE_LABEL, plan_file) ]

MaxDocLines == 3

DocLines ==
    { FieldLine(LANG_LABEL, Java),
      FieldLine(LANG_LABEL, << SP >> \o JavaScript \o << SP >>),
      FieldLine(LANG_LABEL, << SP >>),
      FieldLine(LANG_LABEL, NOT_APPLICABLE),
      FieldLine(LANG_LABEL, NEEDS_CLARIFICATION \o << SP >>),
      << "**", LANG_LABEL, "**:", SP >>,
      << "**", LANG_LABEL, "**:" >> \o Gin,
      FieldLine("language/version", Gin),
      << SP >> \o FieldLine(LANG_LABEL, Gin),
      FieldLine(FRAMEWORK_LABEL, Gin),
      FieldLine(DB_LABEL, Postgres),
      FieldLine(PROJECT_TYPE_LABEL, << "Web", " app" >>),
      << "plain text" >> }

Docs ==
    { [ exists |-> FALSE, lines |-> << >> ] }
    \cup { [ exists |-> TRUE, lines |-> ls ] :
             ls \in UNION { [ 1..k -> DocLines ] : k \in 0..MaxDocLines } }

\* the values format_technology_stack may be called with
FmtValues == { << >>, NEEDS_CLARIFICATION, NOT_APPLICABLE, Java, JavaScript, Gin }

InitPlan ==
    /\ file = << >> /\ prev = << >> /\ hist = << >> /\ file0 = << >>
    /\ NoRun
    /\ NoLocate
    /\ NoScan
    /\ doc \in Docs
    /\ plan = << >>
    /\ fmt = << >>

\* a behaviour applies one of the two functions
ParsePlanData ==
    /\ plan = << >>
    /\ fmt = << >>
    /\ plan' = parse_plan_data(doc)
    /\ UNCHANGED << doc, fmt >>
    /\ UNCHANGED << mergeVars, runVars, locVars, scanVars >>

FormatTechnologyStack ==
    /\ fmt = << >>
    /\ plan = << >>
    /\ \E lang \in FmtValues, framework \in FmtValues :
          fmt' = [ lang |-> lang, framework |-> framework,
                   result |-> format_technology_stack(lang, framework) ]
    /\ UNCHANGED << doc, plan >>
    /\ UNCHANGED << mergeVars, runVars, locVars, scanVars >>

NextPlan ==
    \/ ParsePlanData
    \/ FormatTechnologyStack

PlanSpec == InitPlan /\ [][NextPlan]_vars

(***************************************************************************)
(* The creation of a context file (Case A) from a design.md: main() parses *)
(* the document, update_agent_file finds no target file, and               *)
(* create_new_agent_file renders the template from the fields parsed.      *)
(***************************************************************************)
Go == << "Go 1.22" >>

\* the document has no line for the label
NoLine == << "<no line>" >>

CreateLangs == { NoLine, Go, JavaScript, NOT_APPLICABLE, NEEDS_CLARIFICATION }
CreateFrameworks == { NoLine, Gin, NOT_APPLICABLE, NEEDS_CLARIFICATION }
CreateDbs == { NoLine, Postgres }
CreateProjectTypes == { NoLine, << "Web", " app" >> }

LineIf(label, value) ==
    IF value = NoLine THEN << >> ELSE << FieldLine(label, value) >>

CreateDocs ==
    { [ exists |-> TRUE,
        lines |-> LineIf(LANG_LABEL, l) \o LineIf(FRAMEWORK_LABEL, f)
                  \o LineIf(DB_LABEL, d) \o LineIf(PROJECT_TYPE_LABEL, t) ] :
      l \in CreateLangs, f \in CreateFrameworks, d \in CreateDbs,
      t \in CreateProjectTypes }

InitCreate ==
    /\ file = Absent /\ prev = Absent /\ file0 = Absent /\ hist = << >>
    /\ NoRun
    /\ NoLocate
    /\ NoScan
    /\ doc \in CreateDocs
    /\ plan = << >>
    /\ fmt = << >>

\* main(): parse_plan_data(NEW_PLAN)
CreateParse ==
    /\ plan = << >>
    /\ plan' = parse_plan_data(doc)
    /\ UNCHANGED << doc, fmt >>
    /\ UNCHANGED << mergeVars, runVars, locVars, scanVars >>

\* update_agent_file for a target that does not exist
CreateFile ==
    /\ plan # << >>
    /\ plan.parsed
    /\ file = Absent
    /\ \E branch \in Branches :
          /\ file' = create_new_agent_file(TemplateContent, ProjectName, Today,
                         plan.lang, plan.framework, plan.project_type, branch)
          /\ hist' = << [ lang |-> plan.lang, framework |-> plan.framework,
                          db |-> plan.db, branch |-> branch ] >>
    /\ prev' = file
    /\ UNCHANGED file0
    /\ UNCHANGED << planVars, runVars, locVars, scanVars >>

NextCreate ==
    \/ CreateParse
    \/ CreateFile

CreateSpec == InitCreate /\ [][NextCreate]_vars

(***************************************************************************)
(* One call of update_existing_agent_file followed line by line: the       *)
(* entries computed and the file read, one iteration of the loop per step, *)
(* then the post-loop insertion and the write.  The file is any sequence   *)
(* of up to MaxLines lines of a few kinds.                                 *)
(***************************************************************************)
MaxLines == 4

JsEntry == TechEntry(JavaScript, Branch1)
DashLastUpdated == << DASH, LU_LABEL, OldDate >>

ScanLineKinds ==
    { ACTIVE_TECH_HEADER, RECENT_CHANGES_HEADER, OTHER_HEADER, << >>,
      JsEntry, DashLastUpdated, LastUpdatedLine }

ScanFiles ==
    { WriteLines(EntryLines(ls)) :
        ls \in UNION { [ 1..k -> ScanLineKinds ] : k \in 0..MaxLines } }

ScanInputs ==
    [ lang : { << >>, Java }, framework : { << >> }, db : { << >>, Postgres },
      branch : { Branch2 } ]

InitScan ==
    /\ NoRun
    /\ NoLocate
    /\ NoPlan
    /\ NoScan
    /\ file \in ScanFiles
    /\ prev = file
    /\ file0 = file
    /\ hist = << >>

\* up to the loop: the entries, f.readlines(), the flags
ScanOpen ==
    /\ spos = 0
    /\ \E in \in ScanInputs :
          scanIn' = [ in |-> in,
                      new_tech_entries |->
                          NewTechEntries(file, in.lang, in.framework, in.db, in.branch),
                      new_change_entry |->
                          NewChangeEntry(in.lang, in.framework, in.db, in.branch) ]
    /\ scanLines' = ReadLines(file)
    /\ st' = ScanInit
    /\ spos' = 1
    /\ UNCHANGED << mergeVars, runVars, locVars, planVars >>

\* one iteration of the loop
ScanLine ==
    /\ spos >= 1
    /\ spos <= Len(scanLines)
    /\ st' = ScanStep(st, scanLines[spos], scanIn.new_tech_entries,
                      scanIn.new_change_entry, Today)
    /\ spos' = spos + 1
    /\ UNCHANGED << scanIn, scanLines >>
    /\ UNCHANGED << mergeVars, runVars, locVars, planVars >>

\* after the loop: the post-loop insertion, f.writelines(output)
ScanClose ==
    /\ spos = Len(scanLines) + 1
    /\ hist = << >>
    /\ file' = WriteLines(PostLoop(st, scanIn.new_tech_entries))
    /\ prev' = file
    /\ hist' = << scanIn.in >>
    /\ UNCHANGED file0
    /\ UNCHANGED << runVars, locVars, planVars, scanVars >>

NextScan ==
    \/ ScanOpen
    \/ ScanLine
    \/ ScanClose

ScanSpec == InitScan /\ [][NextScan]_vars

(***************************************************************************)
(* Vocabulary of the properties: the sections of a context file.  A line   *)
(* whose stripped text starts with '## ' is a header and opens a section   *)
(* that runs to the next header.                                           *)
(***************************************************************************)
IsHeader(line) == StartsWith(Strip(line), << HASHES >>)

LabelOfHeader(line) ==
    IF Strip(line) = ACTIVE_TECH_HEADER THEN "AT"
    ELSE IF Strip(line) = RECENT_CHANGES_HEADER THEN "RC"
    ELSE "OUT"

\* the lines of section lab (its header line left out when lab is AT or RC)
RECURSIVE LinesInFrom(_, _, _, _)
LinesInFrom(lines, i, cur, lab) ==
    IF i > Len(lines) THEN << >>
    ELSE IF IsHeader(lines[i])
         THEN (IF LabelOfHeader(lines[i]) = "OUT" /\ lab = "OUT"
               THEN << lines[i] >> ELSE << >>)
              \o LinesInFrom(lines, i + 1, LabelOfHeader(lines[i]), lab)
         ELSE (IF cur = lab THEN << lines[i] >> ELSE << >>)
              \o LinesInFrom(lines, i + 1, cur, lab)

LinesIn(content, lab) == LinesInFrom(ReadLines(content), 1, "OUT", lab)

RECURSIVE Select(_, _)
Select(seq, set) ==
    IF seq = << >> THEN << >>
    ELSE (IF Head(seq) \in set THEN << Head(seq) >> ELSE << >>) \o Select(Tail(seq), set)

\* the lines without their newline
RStripOne(ls) ==
    [ i \in 1..Len(ls) |->
        IF ls[i] # << >> /\ ls[i][Len(ls[i])] = NL
        THEN SubSeq(ls[i], 1, Len(ls[i]) - 1) ELSE ls[i] ]

RStripAll(lines) == [ i \in 1..Len(lines) |-> RStrip(lines[i]) ]

\* the '- ' entries of a section, without their line ends
EntriesIn(content, lab) ==
    LET ls == LinesIn(content, lab)
    IN  RStripAll(Select(ls, { ls[i] : i \in { j \in 1..Len(ls) : StartsWith(ls[j], << DASH >>) } }))

TechEntriesFor(tech) == { TechEntry(tech, b) : b \in Branches }

\* how many Active Technologies entries the file holds for technology tech
CountEntriesFor(content, tech) == Len(Select(EntriesIn(content, "AT"), TechEntriesFor(tech)))

CountHeaders(content, header) ==
    LET ls == ReadLines(content)
    IN  Cardinality({ i \in 1..Len(ls) : Strip(ls[i]) = header })

EndsWithNewline(content) == content # << >> /\ content[Len(content)] = NL

\* a file with one Recent Changes section, every line ended by a newline
HasRecentChanges(content) ==
    /\ CountHeaders(content, RECENT_CHANGES_HEADER) = 1
    /\ EndsWithNewline(content)

FirstN(seq, k) == SubSeq(seq, 1, IF Len(seq) < k THEN Len(seq) ELSE k)

Summary(in) == format_technology_stack(in.lang, in.framework)
ChangeOf(in) == NewChangeEntry(in.lang, in.framework, in.db, in.branch)

Synced == hist # << >>

(***************************************************************************)
(* Properties of the merge                                                 *)
(***************************************************************************)
\* C1: running the sync of a file twice in succession with the same
\* PlanFields, branch and date leaves the content the first run left.
C1_Idempotent ==
    (Len(hist) >= 2 /\ hist[1] = hist[2]) => file = prev

\* C2: once the file holds an Active Technologies entry for the summary S,
\* a sync whose summary is S (under any branch) adds no further entry for S.
C2_NoDuplicateEntry ==
    (Synced /\ Summary(hist[1]) # << >>
            /\ CountEntriesFor(prev, Summary(hist[1])) >= 1)
    => CountEntriesFor(file, Summary(hist[1])) <= CountEntriesFor(prev, Summary(hist[1]))

\* two syncs in a row had the summary S under different branches: the first
\* found no entry for S and added one, the second found it and added none
C2_Witness ==
    /\ Len(hist) >= 2
    /\ Summary(hist[1]) = format_technology_stack(Java, Gin)
    /\ Summary(hist[2]) = Summary(hist[1])
    /\ hist[1].branch # hist[2].branch
    /\ CountEntriesFor(file0, Summary(hist[1])) = 0
    /\ CountEntriesFor(prev, Summary(hist[1])) = 1
    /\ CountEntriesFor(file, Summary(hist[1])) = 1

\* C3: after a merge of a file with a Recent Changes header, that section
\* holds the new change entry (if one was computed) first, then the first
\* two entries it held before, and nothing else: at most 3 entries.
C3_RecentChangesCap ==
    (Synced /\ HasRecentChanges(prev))
    => /\ EntriesIn(file, "RC") =
            (IF ChangeOf(hist[1]) # << >> THEN << ChangeOf(hist[1]) >> ELSE << >>)
            \o FirstN(EntriesIn(prev, "RC"), MaxCarried)
       /\ Len(EntriesIn(file, "RC")) <= MaxCarried + 1

\* the syncs so far introduced pairwise distinct technology-stack strings
DistinctSummaries ==
    /\ \A i \in 1..Len(hist) : Summary(hist[i]) # << >>
    /\ \A i, j \in 1..Len(hist) : i # j => Summary(hist[i]) # Summary(hist[j])

\* C4: after more than 3 syncs with distinct technology-stack strings of a
\* file that had a Recent Changes section, the section holds exactly the
\* change entries of the last three syncs, most recent first.
C4_LastThreeChanges ==
    (Len(hist) > 3 /\ DistinctSummaries /\ HasRecentChanges(file0))
    => EntriesIn(file, "RC") = << ChangeOf(hist[1]), ChangeOf(hist[2]), ChangeOf(hist[3]) >>

\* the lines with the date of every 'Last updated' line set to the current date
Refreshed(lines) ==
    [ i \in 1..Len(lines) |->
        IF MatchesLastUpdated(lines[i]) THEN SubDates(lines[i], Today) ELSE lines[i] ]

\* C5: the lines outside the Active Technologies and Recent Changes
\* sections of a file (every line ended by a newline) are the same lines, in
\* the same order and number, after a merge (the date of a 'Last updated'
\* line apart).
C5_OutsidePreserved ==
    (Synced /\ EndsWithNewline(prev))
    => LinesIn(file, "OUT") = Refreshed(LinesIn(prev, "OUT"))

\* C6: a sync for a stack the file already lists under another branch adds
\* no second technology entry and adds the change entry of the new branch
\* to Recent Changes.
C6_SameStackNewBranch ==
    (/\ Synced
     /\ Summary(hist[1]) # << >>
     /\ HasRecentChanges(prev)
     /\ \E b \in Branches \ { hist[1].branch } :
            TechEntry(Summary(hist[1]), b) \in
                { EntriesIn(prev, "AT")[i] : i \in 1..Len(EntriesIn(prev, "AT")) })
    => /\ CountEntriesFor(file, Summary(hist[1])) = CountEntriesFor(prev, Summary(hist[1]))
       /\ ChangeOf(hist[1]) \in
                { EntriesIn(file, "RC")[i] : i \in 1..Len(EntriesIn(file, "RC")) }

(***************************************************************************)
(* Properties of a run                                                     *)
(***************************************************************************)
RunOver == pc \in { "exit", "crashed" }

PreconditionsMet ==
    check_feature_branch(env.branch, env.has_git) /\ env.design /\ env.template

\* the registry agents whose target file existed when the run began
ExistingAgents == { a \in AgentIds : fs0[PathOf(a)] # Absent }

\* the agent whose file operation raised
RaisedFor(a) == crashedAt # "" /\ call # << >> /\ call[1] = a

\* C7: in an all-agents run a file-system error on one agent's file fails
\* that agent only: every other agent with an existing target is
\* synchronized, and the run ends with its summary, not at the error.
C7_PartialFailureIsolation ==
    (RunOver /\ env.agent_type = NoAgent /\ PreconditionsMet)
    => /\ pc = "exit"
       /\ \A a \in ExistingAgents : a \in synced \/ RaisedFor(a)

CreateSteps == { "create_read", "create_open", "create_write", "create_replace" }

\* the complete content a creation in this run renders
Rendered ==
    create_new_agent_file(TemplateContent, ProjectName, Today, env.plan.lang,
                          env.plan.framework, env.plan.project_type, env.branch)

\* the target of a creation is absent or complete, and complete only once
\* the temporary file, written first, was renamed onto it
AbsentOrRenamed(p) ==
    /\ fs[p] = Absent \/ fs[p] = Rendered
    /\ fs[p] # Absent => (tmp[p] = Absent /\ \E a \in synced : PathOf(a) = p)
    /\ (pc = "create_replace" /\ call[2] = p) => (fs[p] = Absent /\ tmp[p] = Rendered)

C9_AgentSelection ==
    (RunOver /\ env.agent_type = NoAgent /\ PreconditionsMet)
    => /\ attempted = (IF ExistingAgents # { } THEN ExistingAgents ELSE { "claude" })
       /\ \A p \in Paths : (fs0[p] = Absent /\ fs[p] # Absent)
                             => (ExistingAgents = { } /\ p = PathOf("claude"))

C11_ExitCodeInputsOnly ==
    RunOver => (exitCode = 0 <=> (env.design /\ env.template /\ attempted \subseteq synced))

\* C11, amended: the run exits with code 0 if and only if branch validation
\* passed, the design document and the template were present, the requested
\* agent (if any) is a key of AGENT_FILES, and every agent it attempted to
\* synchronize succeeded; it exits with a non-zero code otherwise.
C11_ExitCode ==
    RunOver => /\ exitCode \in { 0, 1 }
               /\ exitCode = 0 <=> /\ PreconditionsMet
                                   /\ env.agent_type \in AgentIds \cup { NoAgent }
                                   /\ attempted # { }
                                   /\ attempted \subseteq synced

\* an all-agents run that synchronized two agents and exited with code 0
C11_Witness ==
    /\ pc = "exit"
    /\ exitCode = 0
    /\ env.agent_type = NoAgent
    /\ Cardinality(synced) >= 2

\* the directories that existed when the run began
Dirs0 == { "." } \cup { ParentOf(p) : p \in { q \in Paths : fs0[q] # Absent } }

\* C12: when branch validation fails, the design document is missing or the
\* template is missing, the run ends with a non-zero exit code and no
\* context file, temporary file or parent directory is created or changed,
\* and update_agent_file is called for no agent.
C12_PreconditionOrdering ==
    ~PreconditionsMet
    => /\ fs = fs0
       /\ tmp = [ p \in Paths |-> Absent ]
       /\ dirs = Dirs0
       /\ attempted = { }
       /\ pc \in { "main", "exit" }
       /\ pc = "exit" => exitCode = 1

\* a run for an agent whose file would have been created ended at the
\* check of the template
C12_Witness ==
    /\ pc = "exit"
    /\ check_feature_branch(env.branch, env.has_git)
    /\ env.design
    /\ ~env.template
    /\ env.agent_type = "copilot"
    /\ fs0[PathOf("copilot")] = Absent
    /\ exitCode = 1

(***************************************************************************)
(* Properties of the feature locator and of branch validation              *)
(***************************************************************************)
BranchResolved == paths # << >> /\ paths.CURRENT_BRANCH # Unset

OverrideSet == fenv.specify # Unset /\ fenv.specify # << >>

\* the names of the subdirectories of the features root named NNN-*
NumberedDirs ==
    { d.name : d \in { x \in fenv.entries : x.is_dir /\ MatchesFeaturePrefix(x.name) } }

\* C13: get_current_branch returns the override when it is set and not
\* empty; otherwise git's branch name when that query succeeds; otherwise a
\* numbered subdirectory of the features root; and 'main' only when none
\* of the three gives a value.
C13_ResolutionOrder ==
    BranchResolved
    => /\ OverrideSet => paths.CURRENT_BRANCH = fenv.specify
       /\ (~OverrideSet /\ GitHeadOk(fenv)) => paths.CURRENT_BRANCH = fenv.git_branch
       /\ (~OverrideSet /\ ~GitHeadOk(fenv) /\ NumberedDirs # { })
          => paths.CURRENT_BRANCH \in NumberedDirs
       /\ (~OverrideSet /\ ~GitHeadOk(fenv) /\ NumberedDirs = { })
          => paths.CURRENT_BRANCH = MainBranch

\* C14: with no override and no repository detected, when the features
\* root has a subdirectory named NNN-* (000 included), get_current_branch
\* returns one whose number is the maximum among them, never 'main'.
C14_HighestNumberedDir ==
    (BranchResolved /\ ~OverrideSet /\ fenv.git = "norepo" /\ NumberedDirs # { })
    => /\ paths.CURRENT_BRANCH \in NumberedDirs
       /\ \A n \in NumberedDirs : NumOf(n[1]) <= NumOf(paths.CURRENT_BRANCH[1])
       /\ paths.CURRENT_BRANCH # MainBranch

\* C15: get_feature_paths never raises: in every environment it returns
\* a repo root, a branch identifier and a feature directory.
C15_LocatorNeverRaises ==
    /\ lpc # "raised"
    /\ lpc \in { "check_feature_branch", "done" }
       => /\ paths.REPO_ROOT # ""
          /\ paths.CURRENT_BRANCH \notin { Unset, << >> }
          /\ paths.FEATURE_DIR \notin { Unset, << >> }

\* find_feature_dir_by_prefix was called: it returned or it raised
FindCalled ==
    lpc \in { "check_feature_branch", "done" } \/ raisedIn = "find_feature_dir_by_prefix"

FindReturned == lpc \in { "check_feature_branch", "done" }

\* the names of the subdirectories of the features root (none when there
\* is no features root) that start with the 3-digit prefix of the branch
PrefixDirs ==
    { d.name : d \in { x \in fenv.entries : /\ x.is_dir
                                             /\ Len(x.name) >= 2
                                             /\ x.name[1] = paths.CURRENT_BRANCH[1]
                                             /\ x.name[2] = "-" } }

\* C16: for a branch identifier with a 3-digit prefix, with no
\* subdirectory of the features root starting with that prefix the result
\* is <features root>/<branch identifier>; with exactly one it is that
\* subdirectory; with more than one the ambiguity is reported and a path
\* is still returned.
C16_FeatureDirResolution ==
    (FindCalled /\ MatchesFeaturePrefix(paths.CURRENT_BRANCH))
    => /\ FindReturned
       /\ PrefixDirs = { } => paths.FEATURE_DIR = paths.CURRENT_BRANCH
       /\ Cardinality(PrefixDirs) = 1 => paths.FEATURE_DIR \in PrefixDirs
       /\ Cardinality(PrefixDirs) > 1
          => /\ paths.FEATURE_DIR # Unset
             /\ paths.CURRENT_BRANCH \notin PrefixDirs => "multiple" \in out

\* C17: when several subdirectories share the branch's 3-digit prefix and
\* one is named exactly as the branch, that one is selected and no
\* ambiguity is reported; the ambiguity is reported only when no
\* subdirectory has the branch's name and several have its prefix.
C17_ExactNameBeatsAmbiguity ==
    (FindReturned /\ MatchesFeaturePrefix(paths.CURRENT_BRANCH))
    => /\ (Cardinality(PrefixDirs) > 1 /\ paths.CURRENT_BRANCH \in PrefixDirs)
          => (paths.FEATURE_DIR = paths.CURRENT_BRANCH /\ "multiple" \notin out)
       /\ "multiple" \in out
          => (paths.CURRENT_BRANCH \notin PrefixDirs /\ Cardinality(PrefixDirs) > 1)

\* the identifiers of the model that start with three digits and a hyphen
FeatureIds == { Zero, Branch1, Branch2, Alpha, Beta, Gamma, File9 }

\* C18: check_feature_branch accepts an identifier that starts with three
\* digits and a hyphen, with git or without; rejects every other
\* identifier when git is present; and accepts every identifier, with a
\* warning, when git is absent.
C18_BranchValidation ==
    lpc = "done"
    => /\ paths.CURRENT_BRANCH \in FeatureIds => valid
       /\ (paths.CURRENT_BRANCH \notin FeatureIds /\ paths.HAS_GIT)
          => (~valid /\ "not_feature_branch" \in out)
       /\ ~paths.HAS_GIT => (valid /\ "warning" \in out)
       /\ paths.HAS_GIT => "warning" \notin out

\* 'foo' was accepted with a warning because git is absent
C18_Witness ==
    /\ lpc = "done"
    /\ paths.CURRENT_BRANCH = Foo
    /\ ~paths.HAS_GIT
    /\ valid
    /\ "warning" \in out

(***************************************************************************)
(* Properties of the plan fields                                           *)
(***************************************************************************)
Labels == { LANG_LABEL, FRAMEWORK_LABEL, DB_LABEL, PROJECT_TYPE_LABEL }

\* the field parse_plan_data stored for a label
Extracted(label) ==
    CASE label = LANG_LABEL -> plan.lang
      [] label = FRAMEWORK_LABEL -> plan.framework
      [] label = DB_LABEL -> plan.db
      [] label = PROJECT_TYPE_LABEL -> plan.project_type

\* the lines of the document of the form '**<label>**: <value>', the value
\* at least one character
LinesOf(label) == { i \in 1..Len(doc.lines) : MatchesField(doc.lines[i], label) }

FirstLineOf(label) == CHOOSE i \in LinesOf(label) : \A j \in LinesOf(label) : i <= j

\* the trimmed remainder of the first such line
FirstValueOf(label) ==
    Strip(SubSeq(doc.lines[FirstLineOf(label)], 5, Len(doc.lines[FirstLineOf(label)])))

Sentinels == { NEEDS_CLARIFICATION, NOT_APPLICABLE }

Parsed == plan # << >> /\ plan.parsed

\* C19 as stated: the field of a label is the trimmed remainder of the
\* first line '**<label>**: <value>', and it is absent exactly when there
\* is no such line or that first value is one of the two sentinels.
C19_FieldAbsentOnlyForSentinel ==
    Parsed => \A label \in Labels :
        /\ (LinesOf(label) # { } /\ FirstValueOf(label) \notin Sentinels)
           => Extracted(label) = FirstValueOf(label)
        /\ Extracted(label) = << >>
           <=> (LinesOf(label) = { } \/ FirstValueOf(label) \in Sentinels)

\* C19, amended: the field of a label is the trimmed remainder of the first
\* line '**<label>**: <value>' (label case-sensitive, at the start of the
\* line, the value at least one character); it is absent exactly when there
\* is no such line, or that first value is one of the two sentinels or is
\* empty once trimmed; later lines with the label never change the result.
C19_FieldExtraction ==
    Parsed => \A label \in Labels :
        /\ (LinesOf(label) # { } /\ FirstValueOf(label) \notin Sentinels)
           => Extracted(label) = FirstValueOf(label)
        /\ Extracted(label) = << >>
           <=> (LinesOf(label) = { } \/ FirstValueOf(label) \in Sentinels \cup { << >> })

\* two lines carry the label with different values, after a line that
\* only looks like one: the first of the two gave the field, trimmed
C19_Witness ==
    /\ Parsed
    /\ doc.lines = << FieldLine("language/version", Gin),
                      FieldLine(LANG_LABEL, << SP >> \o JavaScript \o << SP >>),
                      FieldLine(LANG_LABEL, Java) >>
    /\ plan.lang = JavaScript

\* a language or framework that is there: not empty, not a sentinel
Present(v) == v # << >> /\ v \notin Sentinels

Created == file # Absent /\ hist # << >>

\* the lines of a section of the created file, without their line ends
CreatedLines(lab) == RStripOne(LinesIn(file, lab))

\* C21 as stated: a file created for an absent target has, under Active
\* Technologies, the one entry '- <summary> (<branch>)' and, under Recent
\* Changes, the one entry '- <branch>: Added <summary>', for every design
\* document; for 'Go 1.22' and 'N/A' the summary is 'Go 1.22'.
C21_CreationAnySummary ==
    Created
    => /\ CreatedLines("AT") = << TechEntry(Summary(hist[1]), hist[1].branch) >>
       /\ CreatedLines("RC") = << ChangeEntry(hist[1].branch, Summary(hist[1])) >>
       /\ (Len(doc.lines) >= 2
           /\ doc.lines[1] = FieldLine(LANG_LABEL, Go)
           /\ doc.lines[2] = FieldLine(FRAMEWORK_LABEL, NOT_APPLICABLE))
          => Summary(hist[1]) = Go

\* C21, amended: when the design document gives a language or a framework,
\* the created file has the one entry '- <summary> (<branch>)' under Active
\* Technologies and the one entry '- <branch>: Added <summary>' under Recent
\* Changes; when it gives neither, the entries are '- (<branch>)' and
\* '- <branch>: Added'; for 'Go 1.22' and 'N/A' the summary is 'Go 1.22'.
C21_CreationResult ==
    Created
    => /\ Summary(hist[1]) # << >>
          => /\ CreatedLines("AT") = << TechEntry(Summary(hist[1]), hist[1].branch) >>
             /\ CreatedLines("RC") = << ChangeEntry(hist[1].branch, Summary(hist[1])) >>
       /\ Summary(hist[1]) = << >>
          => /\ CreatedLines("AT") = << << DASH, "(" >> \o hist[1].branch \o << ")" >> >>
             /\ CreatedLines("RC") = << << DASH >> \o hist[1].branch \o << ": Added" >> >>
       /\ (Len(doc.lines) >= 2
           /\ doc.lines[1] = FieldLine(LANG_LABEL, Go)
           /\ doc.lines[2] = FieldLine(FRAMEWORK_LABEL, NOT_APPLICABLE))
          => Summary(hist[1]) = Go

\* a file was created from a design.md with 'Go 1.22' and 'N/A'
C21_Witness ==
    /\ Created
    /\ Len(doc.lines) >= 2
    /\ doc.lines[1] = FieldLine(LANG_LABEL, Go)
    /\ doc.lines[2] = FieldLine(FRAMEWORK_LABEL, NOT_APPLICABLE)
    /\ CreatedLines("AT") = << TechEntry(Go, hist[1].branch) >>
    /\ CreatedLines("RC") = << ChangeEntry(hist[1].branch, Go) >>

(***************************************************************************)
(* Properties of the line scan                                             *)
(***************************************************************************)
Scanned == hist # << >> /\ spos > 0

\* the positions of a line in a sequence of lines
Occurrences(ls, line) == { i \in 1..Len(ls) : ls[i] = line }

\* C22: a merge with a non-empty change entry of a file that contains a
\* '## Recent Changes' header line writes the new change entry exactly
\* once, as the line immediately after that header.
C22_ChangeEntryPlacement ==
    (Scanned /\ scanIn.new_change_entry # << >>
             /\ CountHeaders(prev, RECENT_CHANGES_HEADER) >= 1)
    => LET output == ReadLines(file)
           occ == Occurrences(output, Append(scanIn.new_change_entry, NL))
       IN  /\ Cardinality(occ) = 1
           /\ \A i \in occ : i > 1 /\ Strip(output[i - 1]) = RECENT_CHANGES_HEADER

IsBlank(line) == Strip(line) = << >>

\* the positions at which the lines of block follow one another in ls
BlockPositions(ls, block) ==
    { p \in 1..(Len(ls) - Len(block) + 1) : SubSeq(ls, p, p + Len(block) - 1) = block }

RECURSIVE LastUpdatedLines(_)
LastUpdatedLines(ls) ==
    IF ls = << >> THEN << >>
    ELSE (IF MatchesLastUpdated(Head(ls)) THEN << Head(ls) >> ELSE << >>)
         \o LastUpdatedLines(Tail(ls))

\* C24: every line of the file that matches the 'Last updated' date pattern
\* is in the merged output with its date replaced by the current date,
\* outside the two sections, inside Active Technologies and inside Recent
\* Changes, a '- ' entry of that section included.
C24_TimestampRefresh ==
    Scanned
    => LastUpdatedLines(ReadLines(file)) = Refreshed(LastUpdatedLines(ReadLines(prev)))

\* the loop has taken at least one line
InLoop == spos >= 2

\* the line the loop took last
LastLine == scanLines[spos - 1]

\* a blank line or a header other than the Active Technologies header
EndsTechSection(line) ==
    IsBlank(line) \/ (IsHeader(line) /\ Strip(line) # ACTIVE_TECH_HEADER)

\* C25: at every step of the line scan in_tech and in_changes are never
\* both true, and after a blank line or a new header taken once the new
\* technology entries are inserted the scan is no longer inside Active
\* Technologies.
C25_ExclusiveSectionStates ==
    InLoop
    => /\ ~(st.in_tech /\ st.in_changes)
       /\ (st.tech_added /\ EndsTechSection(LastLine)) => ~st.in_tech

\* the Active Technologies entries of a file, as a set
TechEntrySet(content) ==
    { EntriesIn(content, "AT")[i] : i \in 1..Len(EntriesIn(content, "AT")) }

\* C26: after the merge of a file whose Active Technologies section holds
\* no entry for the summary S, that section holds the entry
\* '- S (<branch>)'; that the characters of S occur elsewhere in the file
\* (in a longer technology name, in Recent Changes, in prose) does not
\* suppress the insertion.
C26_NewTechnologyRecorded ==
    (/\ Scanned
     /\ Summary(hist[1]) # << >>
     /\ CountHeaders(prev, ACTIVE_TECH_HEADER) >= 1
     /\ CountEntriesFor(prev, Summary(hist[1])) = 0)
    => TechEntry(Summary(hist[1]), hist[1].branch) \in TechEntrySet(file)

(***************************************************************************)
(* Properties of the merge, continued                                      *)
(***************************************************************************)
\* C27: every '- ' entry line that was inside the Active Technologies
\* section of a file (every line ended by a newline) before a merge is
\* still there, unchanged and in the same order, after the merge, in any
\* order of the sections.
C27_TechEntriesKept ==
    (Synced /\ EndsWithNewline(prev))
    => Select(EntriesIn(file, "AT"), TechEntrySet(prev)) = EntriesIn(prev, "AT")

(***************************************************************************)
(* Properties of a run, continued                                          *)
(***************************************************************************)
\* the agents the run synchronized whose target is path p
SyncedFor(p) == { a \in synced : PathOf(a) = p }

\* C28: one run merges each distinct target file at most once, whatever the
\* number of registry identifiers that map to it, so a file that existed
\* has, once the run is over, at most one Recent Changes entry more than
\* before.
C28_OneMergePerFile ==
    \A p \in Paths :
        /\ Cardinality(SyncedFor(p)) <= 1
        /\ (pc = "exit" /\ fs0[p] # Absent)
           => Len(EntriesIn(fs[p], "RC")) <= Len(EntriesIn(fs0[p], "RC")) + 1

(***************************************************************************)
(* Properties of the merge: nothing to add                                 *)
(***************************************************************************)
NothingToAdd(in) == in.lang = << >> /\ in.framework = << >> /\ in.db = << >>

\* C29: when language, framework and storage are all absent, the merge
\* leaves every line of the file as it was, the date of a 'Last updated'
\* line apart: no line is added, dropped or moved, and Recent Changes holds
\* as many entries as before.
C29_NothingToAddChangesNothing ==
    (Synced /\ NothingToAdd(hist[1]))
    => LET before == ReadLines(prev)
           after == ReadLines(file)
       IN  /\ Len(after) = Len(before)
           /\ \A i \in 1..Len(before) :
                 \/ after[i] = before[i]
                 \/ /\ MatchesLastUpdated(before[i])
                    /\ after[i] = SubDates(before[i], Today)
           /\ Len(EntriesIn(file, "RC")) = Len(EntriesIn(prev, "RC"))

(***************************************************************************)
(* Properties of a run: the write of a merge                               *)
(***************************************************************************)
\* the content of a file after k merges of this run
RECURSIVE MergedTimes(_, _)
MergedTimes(content, k) ==
    IF k = 0 THEN content
    ELSE update_existing_agent_file(MergedTimes(content, k - 1), env.plan.lang,
             env.plan.framework, env.plan.db, env.branch, Today)

\* the registry identifiers whose target is path p
AgentsFor(p) == { a \in AgentIds : PathOf(a) = p }

\* the target holds its content of before the run or a complete merge result
CompleteMerge(p) ==
    \E k \in 0..Cardinality(AgentsFor(p)) : fs[p] = MergedTimes(fs0[p], k)

UpdateSteps == { "update_read", "update_open", "update_write" }

\* C30: a target that existed holds, in every state, its content of before
\* the merge or a complete merge result, never a truncated or partially
\* written one; when the write of a merge fails, the target holds the
\* complete content it had before that merge.
C30_FailedMergeKeepsFile ==
    \A p \in Paths : fs0[p] # Absent =>
        /\ fs[p] = fs0[p] \/ CompleteMerge(p)
        /\ (pc = "crashed" /\ crashedAt \in UpdateSteps /\ call[2] = p)
           => fs[p] = MergedTimes(fs0[p], Cardinality(SyncedFor(p)))

====
